---------------------------- MODULE Spec2Model ----------------------------
(***************************************************************************)
(* A model of pdf_meta.py: the PDF date normaliser (parse_pdf_date), the   *)
(* metadata accessor (extract_metadata), the metadata merger/writer        *)
(* (update_pdf_metadata) and the Streamlit page (main), one run of the     *)
(* script per user interaction.                                            *)
(*                                                                         *)
(* Three specifications share the variables:                               *)
(*   SpecDate  calls parse_pdf_date on a bounded set of strings;           *)
(*   SpecLib   calls extract_metadata / update_pdf_metadata on a bounded   *)
(*             set of documents and edit requests;                         *)
(*   Spec      runs the page (main) under uploads, clicks and resets.      *)
(***************************************************************************)
EXTENDS Integers, Sequences, FiniteSets, TLC

VARIABLES
    date_str,        \* SpecDate: the argument given to parse_pdf_date
    given,           \* SpecDate: how the argument was built (its date fields)
    result,          \* SpecDate: what parse_pdf_date returned
    pdf_file,        \* SpecLib: the file object handed to the functions
    updated_metadata,\* SpecLib: the EditRequest, a dict in insertion order
    fault,           \* SpecLib: where the PDF library raises in this call
    extracted,       \* SpecLib: extract_metadata's outcome on pdf_file
    output_bytes,    \* SpecLib: update_pdf_metadata's outcome
    reextracted,     \* SpecLib: extract_metadata's outcome on output_bytes
    uploaded_file,   \* Spec: the file_uploader's value
    session_state,   \* Spec: st.session_state
    page             \* Spec: what the last run of main() did and rendered

dateVars == <<date_str, given, result>>
libVars == <<pdf_file, updated_metadata, fault, extracted, output_bytes, reextracted>>
uiVars == <<uploaded_file, session_state, page>>
vars == <<date_str, given, result, pdf_file, updated_metadata, fault, extracted,
          output_bytes, reextracted, uploaded_file, session_state, page>>

(***************************************************************************)
(* Python strings.                                                         *)
(***************************************************************************)

\* s[i:j] with Python's clamping of the bounds (0-based, j exclusive)
Slice(s, i, j) ==
    LET lo == IF i > Len(s) THEN Len(s) ELSE i
        hi == IF j > Len(s) THEN Len(s) ELSE j
    IN IF hi <= lo THEN "" ELSE SubSeq(s, lo + 1, hi)

\* s[i:]
SliceFrom(s, i) == Slice(s, i, Len(s))

\* s.startswith(p)
StartsWith(s, p) == Len(s) >= Len(p) /\ SubSeq(s, 1, Len(p)) = p

\* the whitespace of the strings used here is the blank
IsSpace(c) == c = " "

RECURSIVE LStrip(_)
LStrip(s) ==
    IF Len(s) > 0 /\ IsSpace(SubSeq(s, 1, 1)) THEN LStrip(SliceFrom(s, 1)) ELSE s

RECURSIVE RStrip(_)
RStrip(s) ==
    IF Len(s) > 0 /\ IsSpace(SubSeq(s, Len(s), Len(s)))
    THEN RStrip(Slice(s, 0, Len(s) - 1)) ELSE s

\* s.strip()
Strip(s) == RStrip(LStrip(s))

DigitChars == "0123456789"

IsDigit(c) == \E k \in 1..10 : SubSeq(DigitChars, k, k) = c

DigitValue(c) == CHOOSE k \in 0..9 : SubSeq(DigitChars, k + 1, k + 1) = c

AllDigits(s) == \A k \in 1..Len(s) : IsDigit(SubSeq(s, k, k))

RECURSIVE DigitsValue(_)
DigitsValue(s) ==
    IF Len(s) = 0 THEN 0
    ELSE 10 * DigitsValue(Slice(s, 0, Len(s) - 1)) + DigitValue(SubSeq(s, Len(s), Len(s)))

\* int(s): surrounding whitespace and one sign are accepted, then digits only
\* (the strings used here hold no underscore). ok = FALSE stands for the ValueError.
PyInt(s) ==
    LET t == Strip(s)
        signed == Len(t) > 0 /\ SubSeq(t, 1, 1) \in {"+", "-"}
        body == IF signed THEN SliceFrom(t, 1) ELSE t
        neg == signed /\ SubSeq(t, 1, 1) = "-"
    IN IF Len(body) > 0 /\ AllDigits(body)
       THEN [ok |-> TRUE, val |-> IF neg THEN 0 - DigitsValue(body) ELSE DigitsValue(body)]
       ELSE [ok |-> FALSE, val |-> 0]

DigitStr(n) == SubSeq(DigitChars, n + 1, n + 1)

\* %d, %I, %M, %S: two digits
Pad2(n) == DigitStr((n \div 10) % 10) \o DigitStr(n % 10)

\* %Y for a four-digit year
Pad4(n) == Pad2(n \div 100) \o Pad2(n % 100)


(***************************************************************************)
(* datetime, pytz.utc and pytz.timezone('US/Eastern').                     *)
(***************************************************************************)

IsLeap(y) == (y % 4 = 0 /\ y % 100 # 0) \/ y % 400 = 0

DaysInMonth(y, m) ==
    CASE m \in {4, 6, 9, 11} -> 30
      [] m = 2 -> IF IsLeap(y) THEN 29 ELSE 28
      [] OTHER -> 31

\* datetime(year, month, day, hour, minute, second) raises ValueError outside these
ValidDateTime(y, m, d, h, mi, s) ==
    /\ y \in 1..9999
    /\ m \in 1..12
    /\ d >= 1 /\ d <= DaysInMonth(y, m)
    /\ h \in 0..23
    /\ mi \in 0..59
    /\ s \in 0..59

\* days from 1970-01-01 to y-m-d (proleptic Gregorian)
DaysFromCivil(y, m, d) ==
    LET yy == IF m <= 2 THEN y - 1 ELSE y
        era == yy \div 400
        yoe == yy - era * 400
        mp == (m + 9) % 12
        doy == (153 * mp + 2) \div 5 + d - 1
        doe == yoe * 365 + yoe \div 4 - yoe \div 100 + doy
    IN era * 146097 + doe - 719468

\* the inverse: the civil date of a day number
CivilOfMonth(yoe, era, doy, mp) ==
    [year |-> yoe + era * 400 + (IF mp < 10 THEN 0 ELSE 1),
     month |-> IF mp < 10 THEN mp + 3 ELSE mp - 9,
     day |-> doy - (153 * mp + 2) \div 5 + 1]

CivilOfDoy(yoe, era, doy) == CivilOfMonth(yoe, era, doy, (5 * doy + 2) \div 153)

CivilOfYoe(yoe, era, doe) ==
    CivilOfDoy(yoe, era, doe - (365 * yoe + yoe \div 4 - yoe \div 100))

CivilOfEra(era, doe) ==
    CivilOfYoe((doe - doe \div 1460 + doe \div 36524 - doe \div 146096) \div 365, era, doe)

CivilOfShifted(z) == CivilOfEra(z \div 146097, z - (z \div 146097) * 146097)

CivilFromDays(z0) == CivilOfShifted(z0 + 719468)

\* 0 = Sunday; 1970-01-01 was a Thursday
Weekday(days) == (days + 4) % 7

\* the day number of the n-th Sunday of month m of year y
NthSunday(y, m, n) ==
    LET first == DaysFromCivil(y, m, 1)
    IN first + ((7 - Weekday(first)) % 7) + 7 * (n - 1)

\* seconds since the epoch of a UTC date-time (pytz.utc.localize)
UtcSeconds(y, m, d, h, mi, s) == DaysFromCivil(y, m, d) * 86400 + h * 3600 + mi * 60 + s

\* US/Eastern under the rules in force since 2007: EDT from the second Sunday of
\* March, 07:00 UTC, to the first Sunday of November, 06:00 UTC, of year y.
DstBetween(ts, y) ==
    /\ ts >= NthSunday(y, 3, 2) * 86400 + 7 * 3600
    /\ ts < NthSunday(y, 11, 1) * 86400 + 6 * 3600

EasternIsDst(ts) == DstBetween(ts, CivilFromDays(ts \div 86400).year)

\* no conversion: the UTC fields are shown
EasternOffsetHours_Utc(dst) == 0

EasternOffsetHours(dst) == IF dst THEN 4 ELSE 5

\* the wall-clock fields of day c, second-of-day sod
WallClock(c, sod, dst) ==
    [year |-> c.year, month |-> c.month, day |-> c.day,
     hour |-> sod \div 3600, minute |-> (sod % 3600) \div 60, second |-> sod % 60,
     tzname |-> IF dst THEN "EDT" ELSE "EST"]

\* the local seconds loc of an instant as wall-clock fields
LocalTime(loc, dst) == WallClock(CivilFromDays(loc \div 86400), loc % 86400, dst)

ShiftToEastern(ts, dst) == LocalTime(ts - EasternOffsetHours(dst) * 3600, dst)

\* dt.astimezone(est): the wall-clock fields of the instant in US/Eastern
AsEastern(ts) == ShiftToEastern(ts, EasternIsDst(ts))

\* %B
MonthName(m) ==
    CASE m = 1 -> "January" [] m = 2 -> "February" [] m = 3 -> "March"
      [] m = 4 -> "April" [] m = 5 -> "May" [] m = 6 -> "June"
      [] m = 7 -> "July" [] m = 8 -> "August" [] m = 9 -> "September"
      [] m = 10 -> "October" [] m = 11 -> "November" [] m = 12 -> "December"

\* %I: the hour on a 12-hour clock
Hour12(h) == IF h % 12 = 0 THEN 12 ELSE h % 12

\* dt_est.strftime('%B %d, %Y at %I:%M:%S %p %Z')
Strftime(t) ==
    MonthName(t.month) \o " " \o Pad2(t.day) \o ", " \o Pad4(t.year) \o " at "
      \o Pad2(Hour12(t.hour)) \o ":" \o Pad2(t.minute) \o ":" \o Pad2(t.second)
      \o " " \o (IF t.hour < 12 THEN "AM" ELSE "PM") \o " " \o t.tzname

(***************************************************************************)
(* parse_pdf_date                                                          *)
(***************************************************************************)

\* The local date_str after lines 18-20: stripped, a leading 'D:' removed.
\* The except branch returns this rebound local, not the argument.
StrippedDate(arg) ==
    LET s == Strip(arg)
    IN IF StartsWith(s, "D:") THEN SliceFrom(s, 2) ELSE s

\* a field the string is too short for (lines 26-28)
Zero == [ok |-> TRUE, val |-> 0]

\* lines 31-39, or the except branch when a field did not parse or datetime()
\* refuses the values
BuildDate(s, year, month, day, hour, minute, second) ==
    IF /\ year.ok /\ month.ok /\ day.ok /\ hour.ok /\ minute.ok /\ second.ok
       /\ ValidDateTime(year.val, month.val, day.val, hour.val, minute.val, second.val)
    THEN Strftime(AsEastern(UtcSeconds(year.val, month.val, day.val,
                                       hour.val, minute.val, second.val)))
    ELSE s

\* lines 23-28
ParseFields(s) ==
    BuildDate(s, PyInt(Slice(s, 0, 4)), PyInt(Slice(s, 4, 6)), PyInt(Slice(s, 6, 8)),
              IF Len(s) >= 10 THEN PyInt(Slice(s, 8, 10)) ELSE Zero,
              IF Len(s) >= 12 THEN PyInt(Slice(s, 10, 12)) ELSE Zero,
              IF Len(s) >= 14 THEN PyInt(Slice(s, 12, 14)) ELSE Zero)

parse_pdf_date(arg) == ParseFields(StrippedDate(arg))

(***************************************************************************)
(* SpecDate: parse_pdf_date on a bounded set of strings.                   *)
(***************************************************************************)

\* the years of the generated dates: FirstYear..LastYear, inside 2007..2037 where
\* EasternIsDst states pytz's rules
FirstYear == 2024
LastYear == 2025

NoFields == [year |-> 0, month |-> 0, day |-> 0, hour |-> 0, minute |-> 0, second |-> 0]

\* D:YYYYMMDDHHMMSS
FormatPdfDate(g) ==
    "D:" \o Pad4(g.year) \o Pad2(g.month) \o Pad2(g.day)
         \o Pad2(g.hour) \o Pad2(g.minute) \o Pad2(g.second)

\* every D:YYYYMMDDHHMMSS with two-digit fields in these ranges; day 29..31 of a
\* shorter month is the out-of-range case
GeneratedDates ==
    { [year |-> y, month |-> m, day |-> d, hour |-> h, minute |-> ms[1], second |-> ms[2]] :
        y \in FirstYear..LastYear, m \in 1..12, d \in 1..31, h \in 0..23,
        ms \in {<<0, 0>>, <<59, 59>>} }

\* malformed strings: not a date, too short, wrong length, non-numeric or
\* out-of-range fields, with and without the prefix and surrounding blanks
MalformedStrings ==
    { "not-a-date", "D:2026", "", "D:", "2026", " D:2026 ", "D:202602", "D:202602111",
      "D:20261301000000", "D:20260200000000", "D:20260211250000", "D:20260211126000",
      "D:20260211120060", "D:abcd0211120000", "D:2026-02-11", "D:00000101000000" }

\* strings the format allows besides D:YYYYMMDDHHMMSS: no prefix, date only,
\* surrounding blanks, an offset suffix
OtherStrings ==
    { "20260211120000", "D:20260211", "D:2026021112", " D:20260211120000 ",
      "D:20260211120000+05'00'", "D:20260211020000-05'00'" }

DateInit ==
    /\ \/ \E g \in GeneratedDates :
            /\ date_str = FormatPdfDate(g)
            /\ given = [kind |-> IF ValidDateTime(g.year, g.month, g.day, g.hour, g.minute, g.second)
                                 THEN "valid" ELSE "malformed"] @@ g
       \/ \E str \in MalformedStrings :
            /\ date_str = str
            /\ given = [kind |-> "malformed"] @@ NoFields
       \/ \E str \in OtherStrings :
            /\ date_str = str
            /\ given = [kind |-> "other"] @@ NoFields
    /\ result = [done |-> FALSE, value |-> ""]

\* one call parse_pdf_date(date_str)
CallParsePdfDate ==
    /\ ~result.done
    /\ result' = [done |-> TRUE, value |-> parse_pdf_date(date_str)]
    /\ UNCHANGED <<date_str, given>>

(***************************************************************************)
(* The PDF library (pikepdf) as the code uses it: a document is what       *)
(* pikepdf.open makes of the bytes.                                        *)
(*   opens      "ok", or how pikepdf.open raises: "error" (any Exception)  *)
(*              or "unsupported" (NotImplementedError)                     *)
(*   encrypted  pdf.is_encrypted                                           *)
(*   has_info   "yes" or "no": whether the trailer has a document-         *)
(*              information dictionary; "broken": reading pdf.docinfo      *)
(*              raises                                                     *)
(*   info       the dictionary: key -> object, "absent" for a missing key  *)
(***************************************************************************)

\* the dictionary's keys, in the order iteration yields them
KeyOrder == <<"/Author", "/ModDate", "/Title">>

Names == {KeyOrder[i] : i \in 1..Len(KeyOrder)}

Absent == [kind |-> "absent", text |-> ""]

\* a Python str assigned into the dictionary becomes a string object
StringObj(text) == [kind |-> "String", text |-> text]

\* str(obj): a string object gives its text, a name object its name with the
\* slash; ok = FALSE stands for an object whose conversion raises
PyStr(obj) ==
    CASE obj.kind = "String" -> [ok |-> TRUE, val |-> obj.text]
      [] obj.kind = "Name" -> [ok |-> TRUE, val |-> "/" \o obj.text]
      [] OTHER -> [ok |-> FALSE, val |-> ""]

\* the keys present in the dictionary, in iteration order
PresentKeys(info) == SelectSeq(KeyOrder, LAMBDA k : info[k].kind # "absent")

EmptyInfo == [k \in Names |-> Absent]

\* a return value that is None
None == [none |-> TRUE, record |-> [k \in {} |-> ""]]

\* a returned MetadataRecord
Some(record) == [none |-> FALSE, record |-> record]

\* a file object holding the bytes of doc
FileOf(name, size, doc) == [name |-> name, size |-> size, doc |-> doc, pos |-> 0]

\* pdf_file.seek(0); pdf_file.read(): the bytes are copied, the position moves
ReadAll(file) == [file EXCEPT !.pos = file.size]

(***************************************************************************)
(* extract_metadata                                                        *)
(***************************************************************************)

\* lines 60-72: the dict built from docinfo, a key whose str() raises skipped
ExtractedRecord(info) ==
    [k \in {n \in Names : info[n].kind # "absent" /\ PyStr(info[n]).ok} |-> PyStr(info[k]).val]

\* extract_metadata answering None for an empty dictionary
extract_metadata_NoneIfEmpty(file) ==
    [ret |-> IF file.doc.opens = "ok" /\ ~file.doc.encrypted /\ file.doc.has_info # "broken"
                /\ DOMAIN ExtractedRecord(file.doc.info) # {}
             THEN Some(ExtractedRecord(file.doc.info)) ELSE None,
     error |-> "", reads |-> {n \in Names : file.doc.info[n].kind # "absent"},
     file |-> ReadAll(file)]

\* extract_metadata without the test of line 54
extract_metadata_NoEncryptionCheck(file) ==
    [ret |-> IF file.doc.opens = "ok" THEN Some(ExtractedRecord(file.doc.info)) ELSE None,
     error |-> "", reads |-> {n \in Names : file.doc.info[n].kind # "absent"},
     file |-> ReadAll(file)]

\* ret is the return value, error the st.error text, reads the keys whose value
\* was read, file is pdf_file afterwards
extract_metadata(file) ==
    LET doc == file.doc
        base == [ret |-> None, error |-> "", reads |-> {}, file |-> ReadAll(file)]
    IN CASE doc.opens = "unsupported" ->
              [base EXCEPT !.error = "PDF feature not supported or file is invalid."]
         [] doc.opens = "error" ->
              [base EXCEPT !.error = "An error occurred while extracting metadata."]
         [] doc.encrypted ->
              [base EXCEPT !.error = "The uploaded PDF is encrypted and cannot be processed."]
         [] doc.has_info = "broken" ->
              [base EXCEPT !.ret = Some([k \in {} |-> ""])]
         [] OTHER ->
              [base EXCEPT !.ret = Some(ExtractedRecord(doc.info)),
                           !.reads = {n \in Names : doc.info[n].kind # "absent"}]

(***************************************************************************)
(* update_pdf_metadata.  An EditRequest is a dict: a sequence of           *)
(* [key, value] with distinct keys, in insertion order.  lib is how the    *)
(* library behaves in this call: lib.raises names the call that raises     *)
(* ("open": pikepdf.open, "assign": writing into docinfo, "save":          *)
(* pdf.save), lib.decrypts whether save drops the encryption of an         *)
(* encrypted document.                                                     *)
(***************************************************************************)

HasKey(E, key) == \E i \in 1..Len(E) : E[i].key = key

\* line 110
DictKey(key) == IF StartsWith(key, "/") THEN key ELSE "/" \o key

\* lines 99-104: the loop stops at the first key whose str() raises and keeps
\* what it had read
RECURSIVE ExistingFrom(_, _, _)
ExistingFrom(info, keys, acc) ==
    IF Len(keys) = 0 THEN acc
    ELSE LET k == Head(keys)
             v == PyStr(info[k])
         IN IF v.ok THEN ExistingFrom(info, Tail(keys), acc @@ (k :> v.val))
            ELSE acc

ExistingMetadata(info) == ExistingFrom(info, PresentKeys(info), [k \in {} |-> ""])

\* ApplyEdits without the test of line 108: an empty value is written too
RECURSIVE ApplyEdits_NoEmptyCheck(_, _)
ApplyEdits_NoEmptyCheck(info, E) ==
    IF Len(E) = 0 THEN info
    ELSE ApplyEdits_NoEmptyCheck([info EXCEPT ![DictKey(Head(E).key)] = StringObj(Head(E).value)],
                                 Tail(E))

\* lines 107-112
RECURSIVE ApplyEdits(_, _)
ApplyEdits(info, E) ==
    IF Len(E) = 0 THEN info
    ELSE LET e == Head(E)
             next == IF e.value # ""
                     THEN [info EXCEPT ![DictKey(e.key)] = StringObj(e.value)]
                     ELSE info
         IN ApplyEdits(next, Tail(E))

\* PreserveModDate writing the time of the save when ModDate is not in the request
PreserveModDate_Refreshes(info, E, existing) ==
    IF ~HasKey(E, "/ModDate") /\ ~HasKey(E, "ModDate")
    THEN [info EXCEPT !["/ModDate"] = StringObj("D:20261104120000")]
    ELSE info

\* PreserveModDate removing the field when ModDate is not in the request
PreserveModDate_Removes(info, E, existing) ==
    IF ~HasKey(E, "/ModDate") /\ ~HasKey(E, "ModDate")
    THEN [info EXCEPT !["/ModDate"] = Absent]
    ELSE info

\* lines 116-118
PreserveModDate(info, E, existing) ==
    IF ~HasKey(E, "/ModDate") /\ ~HasKey(E, "ModDate")
       /\ "/ModDate" \in DOMAIN existing /\ existing["/ModDate"] # ""
    THEN [info EXCEPT !["/ModDate"] = StringObj(existing["/ModDate"])]
    ELSE info

\* lines 98-118: the dictionary after the writes
MergedInfo(info, E) == PreserveModDate(ApplyEdits(info, E), E, ExistingMetadata(info))

\* whether lines 107-118 write into docinfo at all
WritesDocinfo(info, E) ==
    \/ \E i \in 1..Len(E) : E[i].value # ""
    \/ PreserveModDate(info, E, ExistingMetadata(info)) # info

\* update_pdf_metadata without the try/except of lines 89 and 127: the library's
\* exception leaves the function
update_pdf_metadata_NoCatch(file, E, lib) ==
    IF file.doc.opens # "ok" \/ file.doc.has_info = "broken" \/ lib.raises # "none"
    THEN [none |-> TRUE, doc |-> file.doc, error |-> "", raised |-> TRUE,
          file |-> ReadAll(file)]
    ELSE [none |-> FALSE,
          doc |-> [file.doc EXCEPT !.has_info = "yes", !.info = MergedInfo(file.doc.info, E)],
          error |-> "", raised |-> FALSE, file |-> ReadAll(file)]

\* ret is the new buffer's document, none = TRUE for None; error is the st.error
\* text; raised tells whether an exception left the function; file is pdf_file
\* afterwards
update_pdf_metadata(file, E, lib) ==
    LET doc == file.doc
        failed(cause) == [none |-> TRUE, doc |-> doc,
                          error |-> "Failed to update metadata: " \o cause,
                          raised |-> FALSE, file |-> ReadAll(file)]
        \* a broken dictionary: the read loop's except swallows the error
        \* (existing_metadata stays empty), the first write raises it again
        broken == doc.has_info = "broken"
        writes == IF broken THEN \E i \in 1..Len(E) : E[i].value # ""
                  ELSE WritesDocinfo(doc.info, E)
    IN CASE doc.opens # "ok" \/ lib.raises = "open" -> failed("open")
         [] writes /\ (broken \/ lib.raises = "assign") -> failed("docinfo")
         [] lib.raises = "save" -> failed("save")
         [] OTHER ->
            [none |-> FALSE,
             doc |-> [opens |-> "ok",
                      encrypted |-> doc.encrypted /\ ~lib.decrypts,
                      has_info |-> IF broken THEN "broken" ELSE "yes",
                      info |-> IF broken THEN doc.info ELSE MergedInfo(doc.info, E)],
             error |-> "", raised |-> FALSE, file |-> ReadAll(file)]

(***************************************************************************)
(* SpecLib: extract_metadata, update_pdf_metadata and extract_metadata on  *)
(* the written bytes, for a bounded set of documents and edit requests.    *)
(***************************************************************************)

\* the longest EditRequest
MaxEdits == 2

\* the objects a dictionary entry may hold
Objects ==
    { Absent, StringObj(""), StringObj("Old"), [kind |-> "Name", text |-> "Nm"],
      [kind |-> "Bad", text |-> ""] }

PlainDoc(info) == [opens |-> "ok", encrypted |-> FALSE, has_info |-> "yes", info |-> info]

\* /ModDate holds any object; the key before it and the key after it hold a
\* string, an object whose str() raises, or nothing
LibDocs ==
    { PlainDoc(info) :
        info \in { f \in [Names -> Objects] :
                     \A k \in {"/Author", "/Title"} : f[k].kind # "Name" /\ f[k] # StringObj("") } }
      \cup { [PlainDoc(EmptyInfo) EXCEPT !.has_info = "no"],
             [PlainDoc(EmptyInfo) EXCEPT !.has_info = "broken"],
             [PlainDoc([EmptyInfo EXCEPT !["/Title"] = StringObj("Old")]) EXCEPT !.encrypted = TRUE],
             [PlainDoc(EmptyInfo) EXCEPT !.opens = "error"],
             [PlainDoc(EmptyInfo) EXCEPT !.opens = "error", !.encrypted = TRUE],
             [PlainDoc(EmptyInfo) EXCEPT !.opens = "unsupported"] }

\* the keys a caller may use: with the slash and without it
EditKeys == {"Title", "/Title", "ModDate", "/ModDate", "/Author"}

EditValues == {"", "New", "Two"}

RECURSIVE EditRequests(_)
EditRequests(n) ==
    IF n = 0 THEN {<<>>}
    ELSE LET shorter == EditRequests(n - 1)
         IN shorter \cup
            { Append(E, [key |-> k, value |-> v]) :
                E \in {F \in shorter : Len(F) = n - 1}, k \in EditKeys, v \in EditValues }

\* a dict holds a key once
DistinctKeys(E) == \A i, j \in 1..Len(E) : E[i].key = E[j].key => i = j

\* how the library may behave in one call of update_pdf_metadata
LibBehaviours == [raises : {"none", "open", "assign", "save"}, decrypts : BOOLEAN]

NotCalled == [done |-> FALSE, ret |-> None, error |-> "", reads |-> {}]

NotUpdated == [done |-> FALSE, none |-> TRUE, doc |-> PlainDoc(EmptyInfo), error |-> "", raised |-> FALSE]

LibInit ==
    /\ \E doc \in LibDocs : pdf_file = FileOf("doc.pdf", 1000, doc)
    /\ updated_metadata \in {E \in EditRequests(MaxEdits) : DistinctKeys(E)}
    /\ fault = [raises |-> "none", decrypts |-> FALSE]
    /\ extracted = NotCalled
    /\ output_bytes = NotUpdated
    /\ reextracted = NotCalled

\* metadata = extract_metadata(pdf_file)
CallExtract ==
    /\ ~extracted.done
    /\ \E r \in {extract_metadata(pdf_file)} :
          /\ extracted' = [done |-> TRUE, ret |-> r.ret, error |-> r.error, reads |-> r.reads]
          /\ pdf_file' = r.file
    /\ UNCHANGED <<updated_metadata, fault, output_bytes, reextracted>>

\* output_bytes = update_pdf_metadata(pdf_file, updated_metadata)
CallUpdate ==
    /\ extracted.done /\ ~output_bytes.done
    /\ \E lib \in {b \in LibBehaviours : b.decrypts => pdf_file.doc.encrypted} :
         \E r \in {update_pdf_metadata(pdf_file, updated_metadata, lib)} :
            /\ fault' = lib
            /\ output_bytes' = [done |-> TRUE, none |-> r.none, doc |-> r.doc,
                                error |-> r.error, raised |-> r.raised]
            /\ pdf_file' = r.file
    /\ UNCHANGED <<updated_metadata, extracted, reextracted>>

\* extract_metadata(output_bytes), when update_pdf_metadata returned a buffer
CallExtractOutput ==
    /\ output_bytes.done /\ ~output_bytes.none /\ ~reextracted.done
    /\ \E r \in {extract_metadata(FileOf("out.pdf", pdf_file.size, output_bytes.doc))} :
          reextracted' = [done |-> TRUE, ret |-> r.ret, error |-> r.error, reads |-> r.reads]
    /\ UNCHANGED <<pdf_file, updated_metadata, fault, extracted, output_bytes>>

(***************************************************************************)
(* main: one run of the script for one user interaction.                   *)
(***************************************************************************)

\* a limit of 12MB instead
MaxUploadBytes_12MB == 12 * 1024 * 1024

\* line 249
MaxUploadBytes == 10 * 1024 * 1024

UpperChars == "ABCDEFGHIJKLMNOPQRSTUVWXYZ"
LowerChars == "abcdefghijklmnopqrstuvwxyz"

LowerChar(c) ==
    IF \E k \in 1..26 : SubSeq(UpperChars, k, k) = c
    THEN LET k == CHOOSE k \in 1..26 : SubSeq(UpperChars, k, k) = c
         IN SubSeq(LowerChars, k, k)
    ELSE c

\* s.lower()
RECURSIVE Lower(_)
Lower(s) == IF Len(s) = 0 THEN "" ELSE LowerChar(SubSeq(s, 1, 1)) \o Lower(SliceFrom(s, 1))

\* sub in s
Contains(s, sub) == \E i \in 0..Len(s) : StartsWith(SliceFrom(s, i), sub)

\* line 303
IsDateKey(key) == Contains(Lower(key), "date") \/ Contains(key, "Date")

\* list(metadata.keys()): the dict's keys in insertion order
KeysOf(record) == SelectSeq(KeyOrder, LAMBDA k : k \in DOMAIN record)

\* dict.get(key, '')
Get(record, key) == IF key \in DOMAIN record THEN record[key] ELSE ""

NoFile == [present |-> FALSE, file |-> FileOf("", 0, PlainDoc(EmptyInfo))]

Uploaded(file) == [present |-> TRUE, file |-> file]

\* st.session_state without the two keys the script sets
EmptySession ==
    [present |-> FALSE, displayed_metadata |-> <<>>, all_metadata |-> [k \in {} |-> ""]]

\* what a run did and rendered
BlankPage ==
    [ran |-> FALSE,
     rejected |-> FALSE,           \* line 250: the size error
     extract_called |-> FALSE,     \* line 267
     extract_none |-> FALSE,       \* extract_metadata returned None
     reads |-> {},                 \* the fields extract_metadata read
     error |-> "",                 \* st.error text
     selection |-> <<>>,           \* the checkboxes of lines 286-290
     results |-> <<>>,             \* the cards of lines 300-312
     edit_keys |-> <<>>,           \* the checkboxes of lines 334-338
     edit_current |-> <<>>,        \* the current values of line 351
     edit |-> {},                  \* the edit checkboxes left ticked
     values |-> [k \in Names |-> ""],  \* the text inputs' contents (line 353)
     save_offered |-> FALSE,       \* the Save Changes button was rendered
     update_called |-> FALSE,      \* line 397
     request |-> <<>>,             \* the EditRequest given to update_pdf_metadata
     update_none |-> FALSE,        \* update_pdf_metadata returned None
     download |-> FALSE,           \* line 405: the download button
     download_doc |-> PlainDoc(EmptyInfo),
     raised |-> FALSE]             \* an exception left main

\* lines 300-304: the cards, date fields through parse_pdf_date
Cards(keys, metadata) ==
    [i \in 1..Len(keys) |->
        [key |-> keys[i],
         value |-> IF IsDateKey(keys[i]) THEN parse_pdf_date(Get(metadata, keys[i]))
                   ELSE Get(metadata, keys[i])]]

\* lines 343-362: updated_values, the non-empty inputs of the fields to edit
RECURSIVE UpdatedValues(_, _)
UpdatedValues(fields, values) ==
    IF Len(fields) = 0 THEN <<>>
    ELSE LET k == Head(fields)
             rest == UpdatedValues(Tail(fields), values)
         IN IF values[k] # "" THEN <<[key |-> k, value |-> values[k]]>> \o rest ELSE rest

\* lines 396-414: Save Changes was clicked
SaveChanges(r, session, pg, updated_values) ==
    LET called == [pg EXCEPT !.update_called = TRUE, !.request = updated_values,
                             !.update_none = r.none, !.error = r.error, !.raised = r.raised]
    IN [session |-> session,
        page |-> IF r.none \/ r.raised THEN called
                 ELSE [called EXCEPT !.download = TRUE, !.download_doc = r.doc],
        up |-> Uploaded(r.file)]

\* lines 341-415: the inputs of the fields to edit and the save options
EnterValues(up, session, pg, fields_to_edit, updated_values, w, lib) ==
    IF fields_to_edit = <<>> \/ updated_values = <<>>
    THEN [session |-> session, page |-> pg, up |-> up]
    ELSE IF ~w.save
    THEN [session |-> session, page |-> [pg EXCEPT !.save_offered = TRUE], up |-> up]
    ELSE SaveChanges(update_pdf_metadata(up.file, updated_values, lib), session,
                     [pg EXCEPT !.save_offered = TRUE], updated_values)

\* lines 332-338: the fields ticked for editing, and their current values
SelectToEdit(up, session, pg, fields_to_edit, w, lib) ==
    EnterValues(up, session,
                [pg EXCEPT !.edit_keys = session.displayed_metadata,
                           !.edit = {fields_to_edit[i] : i \in 1..Len(fields_to_edit)},
                           !.values = [k \in Names |->
                                         IF \E i \in 1..Len(fields_to_edit) : fields_to_edit[i] = k
                                         THEN w.values[k] ELSE ""],
                           !.edit_current =
                               [i \in 1..Len(fields_to_edit) |->
                                  [key |-> fields_to_edit[i],
                                   value |-> Get(session.all_metadata, fields_to_edit[i])]]],
                fields_to_edit, UpdatedValues(fields_to_edit, w.values), w, lib)

\* lines 320-415: the edit section
EditSection(up, session, pg, w, lib) ==
    IF ~(session.present /\ session.displayed_metadata # <<>>)
    THEN [session |-> session, page |-> pg, up |-> up]
    ELSE SelectToEdit(up, session, pg,
                      SelectSeq(session.displayed_metadata, LAMBDA k : k \in w.edit), w, lib)

\* lines 293-317: the Submit button
Submit(up, session, pg, metadata, keys, selected_keys, w, lib) ==
    IF w.submit /\ selected_keys # <<>>
    THEN EditSection(up,
                     [present |-> TRUE, displayed_metadata |-> selected_keys,
                      all_metadata |-> metadata],
                     [pg EXCEPT !.selection = keys, !.results = Cards(selected_keys, metadata)],
                     w, lib)
    ELSE EditSection(up, session, [pg EXCEPT !.selection = keys], w, lib)

\* lines 269-317: the field checkboxes
SelectFields(up, session, pg, metadata, keys, w, lib) ==
    IF keys = <<>>
    THEN [session |-> session, page |-> pg, up |-> up]
    ELSE Submit(up, session, pg, metadata, keys,
                SelectSeq(keys, LAMBDA k : k \in w.selected), w, lib)

\* lines 266-269: extract_metadata has returned ex
Extracted(ex, session, pg, w, lib) ==
    IF ex.ret.none
    THEN [session |-> session, page |-> pg, up |-> Uploaded(ex.file)]
    ELSE SelectFields(Uploaded(ex.file), session, pg, ex.ret.record, KeysOf(ex.ret.record),
                      w, lib)

\* line 267
ExtractStep(ex, session, pg, w, lib) ==
    Extracted(ex, session,
              [pg EXCEPT !.extract_called = TRUE, !.extract_none = ex.ret.none,
                         !.reads = ex.reads, !.error = ex.error],
              w, lib)

\* lines 247-415.  up is the file_uploader's value, session the session state,
\* w the widgets' values in this run: selected and edit (ticked checkboxes),
\* values (text inputs), submit and save (the button clicked, at most one)
Main(up, session, w, lib) ==
    IF ~up.present
    THEN [session |-> session, page |-> [BlankPage EXCEPT !.ran = TRUE], up |-> up]
    ELSE IF up.file.size > MaxUploadBytes
    THEN [session |-> session,
          page |-> [BlankPage EXCEPT !.ran = TRUE, !.rejected = TRUE,
                      !.error = "File is too large. Please upload a PDF under 10MB."],
          up |-> up]
    ELSE ExtractStep(extract_metadata(up.file), session, [BlankPage EXCEPT !.ran = TRUE], w, lib)

(***************************************************************************)
(* Spec: the page under uploads, widget changes, clicks and resets.        *)
(***************************************************************************)

InfoOf(author, moddate, title) ==
    [k \in Names |->
        LET text == CASE k = "/Author" -> author [] k = "/ModDate" -> moddate [] OTHER -> title
        IN IF text = "" THEN Absent ELSE StringObj(text)]

\* the files the user may upload
Files ==
    { FileOf("a.pdf", 1000, PlainDoc(InfoOf("X", "", "Old"))),
      FileOf("b.pdf", MaxUploadBytes, PlainDoc(InfoOf("Y", "D:20250101000000", ""))),
      FileOf("over.pdf", MaxUploadBytes + 1, PlainDoc(InfoOf("", "", "Over"))),
      FileOf("big.pdf", 12 * 1024 * 1024, PlainDoc(InfoOf("", "", "Big"))),
      FileOf("enc.pdf", 2000, [PlainDoc(InfoOf("", "", "Secret")) EXCEPT !.encrypted = TRUE]),
      FileOf("locked.pdf", 2500,
             [PlainDoc(InfoOf("", "", "Secret")) EXCEPT !.encrypted = TRUE, !.opens = "error"]),
      FileOf("empty.pdf", 3000, [PlainDoc(EmptyInfo) EXCEPT !.has_info = "no"]),
      FileOf("bad.pdf", 4000, [PlainDoc(EmptyInfo) EXCEPT !.opens = "error"]) }

\* the file as it was uploaded
FileNamed(name) == CHOOSE f \in Files : f.name = name

\* the edit checkboxes and text inputs: a value only for a ticked field
EditWidgets ==
    UNION { { [edit |-> e, values |-> v] :
                v \in {f \in [Names -> EditValues] : \A k \in Names : k \notin e => f[k] = ""} } :
            e \in SUBSET Names }

Widgets(ew, selected, button) ==
    [selected |-> selected, edit |-> ew.edit, values |-> ew.values,
     submit |-> button = "submit", save |-> button = "save"]

NoFault == [raises |-> "none", decrypts |-> FALSE]

UiInit ==
    /\ uploaded_file = NoFile
    /\ session_state = EmptySession
    /\ page = BlankPage

\* one run of main(), r what it leaves
Run(r) ==
    /\ uploaded_file' = r.up
    /\ session_state' = r.session
    /\ page' = r.page

\* the widgets as the last run left them: a widget that was not rendered is
\* back at its default
KeptWidgets == [edit |-> page.edit, values |-> page.values]

DefaultWidgets == [edit |-> {}, values |-> [k \in Names |-> ""]]

Elements(seq) == {seq[i] : i \in 1..Len(seq)}

\* the user picks a file in the uploader
UploadFile ==
    \E f \in Files :
        Run(Main(Uploaded(f), session_state, Widgets(KeptWidgets, {}, "none"), NoFault))

\* the user removes the file from the uploader
RemoveFile ==
    /\ uploaded_file.present
    /\ Run(Main(NoFile, session_state, Widgets(KeptWidgets, {}, "none"), NoFault))

\* the user ticks edit checkboxes or types into inputs that are on the page
ChangeWidgets ==
    /\ page.edit_keys # <<>>
    /\ \E ew \in EditWidgets :
        /\ ew.edit \subseteq Elements(page.edit_keys)
        /\ Run(Main(uploaded_file, session_state, Widgets(ew, {}, "none"), NoFault))

\* line 293: the Submit button, with some of the field checkboxes ticked
ClickSubmit ==
    /\ page.selection # <<>>
    /\ \E selected \in SUBSET Elements(page.selection) :
        Run(Main(uploaded_file, session_state, Widgets(KeptWidgets, selected, "submit"), NoFault))

\* line 395: the Save Changes button
ClickSave ==
    /\ page.save_offered
    /\ \E lib \in {b \in LibBehaviours : b.decrypts => uploaded_file.file.doc.encrypted} :
        Run(Main(uploaded_file, session_state, Widgets(KeptWidgets, {}, "save"), lib))

\* lines 206-208: the sidebar button clears the session state and reruns; the
\* uploader may keep its file or lose it
ClickRerun ==
    \E up \in {uploaded_file, NoFile} :
        Run(Main(up, EmptySession, Widgets(DefaultWidgets, {}, "none"), NoFault))

IdleDate ==
    /\ date_str = ""
    /\ given = [kind |-> "other"] @@ NoFields
    /\ result = [done |-> FALSE, value |-> ""]

IdleLib ==
    /\ pdf_file = FileOf("", 0, PlainDoc(EmptyInfo))
    /\ updated_metadata = <<>>
    /\ fault = NoFault
    /\ extracted = NotCalled
    /\ output_bytes = NotUpdated
    /\ reextracted = NotCalled

Init == UiInit /\ IdleDate /\ IdleLib

Next ==
    \/ UploadFile /\ UNCHANGED <<dateVars, libVars>>
    \/ RemoveFile /\ UNCHANGED <<dateVars, libVars>>
    \/ ChangeWidgets /\ UNCHANGED <<dateVars, libVars>>
    \/ ClickSubmit /\ UNCHANGED <<dateVars, libVars>>
    \/ ClickSave /\ UNCHANGED <<dateVars, libVars>>
    \/ ClickRerun /\ UNCHANGED <<dateVars, libVars>>

Spec == Init /\ [][Next]_vars

InitDate == DateInit /\ IdleLib /\ UiInit

NextDate == CallParsePdfDate /\ UNCHANGED <<libVars, uiVars>>

SpecDate == InitDate /\ [][NextDate]_vars

InitLib == LibInit /\ IdleDate /\ UiInit

NextLib ==
    \/ CallExtract /\ UNCHANGED <<dateVars, uiVars>>
    \/ CallUpdate /\ UNCHANGED <<dateVars, uiVars>>
    \/ CallExtractOutput /\ UNCHANGED <<dateVars, uiVars>>

SpecLib == InitLib /\ [][NextLib]_vars

(***************************************************************************)
(* The claims.                                                             *)
(***************************************************************************)

\* the fields an EditRequest writes: the normalised keys of its non-empty entries
Targets(E) == {DictKey(E[i].key) : i \in {j \in 1..Len(E) : E[j].value # ""}}

\* the value the request gives field k
Requested(E, k) == E[CHOOSE i \in 1..Len(E) : DictKey(E[i].key) = k /\ E[i].value # ""].value

\* every field is named by at most one key of the request
OneKeyPerField(E) == \A i, j \in 1..Len(E) : DictKey(E[i].key) = DictKey(E[j].key) => i = j

\* R overridden by the non-empty entries of E
Overridden(R, E) ==
    [k \in DOMAIN R \cup Targets(E) |-> IF k \in Targets(E) THEN Requested(E, k) ELSE R[k]]

\* update_pdf_metadata returned a buffer and extract_metadata read it back, for a
\* document extract_metadata had given a MetadataRecord for
WrittenAndRead == reextracted.done /\ ~extracted.ret.none /\ ~output_bytes.none

\* C1: for every MetadataRecord R and every EditRequest E (each field named by one
\* key, with or without the slash), the record of the document update_pdf_metadata
\* writes is R overridden by E's non-empty entries: every such entry's field holds
\* the new value, every other field of R is present with its original value.
C1_MergeKeepsUntouchedFields ==
    (WrittenAndRead /\ OneKeyPerField(updated_metadata)) =>
        /\ ~reextracted.ret.none
        /\ reextracted.ret.record = Overridden(extracted.ret.record, updated_metadata)
        /\ \A k \in DOMAIN extracted.ret.record : k \in DOMAIN reextracted.ret.record

\* C1's case: a request that changes one field of a record that has another
C1_Witness ==
    /\ WrittenAndRead
    /\ updated_metadata = <<[key |-> "Title", value |-> "New"]>>
    /\ extracted.ret.record = [k \in {"/Author", "/Title"} |-> "Old"]
    /\ reextracted.ret.record = ("/Author" :> "Old") @@ ("/Title" :> "New")

\* C2: when the original document has a ModDate v and the EditRequest does not
\* mention ModDate, the written document's ModDate is still v.
C2_ModDatePreserved ==
    (/\ WrittenAndRead
     /\ "/ModDate" \in DOMAIN extracted.ret.record
     /\ ~HasKey(updated_metadata, "/ModDate") /\ ~HasKey(updated_metadata, "ModDate")) =>
        /\ ~reextracted.ret.none
        /\ "/ModDate" \in DOMAIN reextracted.ret.record
        /\ reextracted.ret.record["/ModDate"] = extracted.ret.record["/ModDate"]

\* C2's case: a ModDate kept through a save that changed another field
C2_Witness ==
    /\ WrittenAndRead
    /\ updated_metadata = <<[key |-> "/Title", value |-> "New"]>>
    /\ "/ModDate" \in DOMAIN extracted.ret.record
    /\ extracted.ret.record["/ModDate"] = "Old"
    /\ reextracted.ret.record["/ModDate"] = "Old"

\* C3: saving with an empty EditRequest and extracting from the saved bytes gives
\* the MetadataRecord extract_metadata gave before saving.
C3_RoundTrip ==
    (WrittenAndRead /\ updated_metadata = <<>>) => reextracted.ret = extracted.ret

\* C3's case: a record with a name object as ModDate, which the save rewrites
\* as a string, read back equal
C3_Witness ==
    /\ WrittenAndRead /\ updated_metadata = <<>>
    /\ pdf_file.doc.info["/ModDate"].kind = "Name"
    /\ output_bytes.doc.info["/ModDate"].kind = "String"
    /\ DOMAIN extracted.ret.record = Names
    /\ reextracted.ret = extracted.ret

\* C4: for a malformed string parse_pdf_date returns exactly the string it was
\* given, prefix and surrounding blanks included.
C4_MalformedReturnedUnchanged ==
    (result.done /\ given.kind = "malformed") => result.value = date_str

\* the day before y-m-d
PreviousDay(g) ==
    IF g.day > 1 THEN [year |-> g.year, month |-> g.month, day |-> g.day - 1]
    ELSE IF g.month > 1
    THEN [year |-> g.year, month |-> g.month - 1, day |-> DaysInMonth(g.year, g.month - 1)]
    ELSE [year |-> g.year - 1, month |-> 12, day |-> 31]

\* s.endswith(p)
EndsWith(s, p) == Len(s) >= Len(p) /\ SubSeq(s, Len(s) - Len(p) + 1, Len(s)) = p

\* "<month name> <day>, <year> at ", how the display string starts
DatePart(g) == MonthName(g.month) \o " " \o Pad2(g.day) \o ", " \o Pad4(g.year) \o " at "

\* C5 as stated: the display string of a valid D:YYYYMMDDHHMMSS names the year,
\* month and day of that date, whatever the time.
C5_ShowsGivenDate ==
    (result.done /\ given.kind = "valid") => StartsWith(result.value, DatePart(given))

\* C5 amended: the display string names the US/Eastern calendar date of the instant
\* read as UTC: the given date from 05:00:00 on, the day before up to 03:59:59, and
\* between 04:00:00 and 04:59:59 the given date when the result is in daylight
\* time (EDT, always so from April to October) and the day before when it is in
\* standard time (EST, always so from December to February).
C5_ShowsEasternDate ==
    (result.done /\ given.kind = "valid") =>
        /\ given.hour >= 5 => StartsWith(result.value, DatePart(given))
        /\ given.hour < 4 => StartsWith(result.value, DatePart(PreviousDay(given)))
        /\ given.hour = 4 =>
            /\ given.month \in 4..10 => StartsWith(result.value, DatePart(given))
            /\ given.month \in {12, 1, 2} =>
                   StartsWith(result.value, DatePart(PreviousDay(given)))
            /\ EndsWith(result.value, " EDT") => StartsWith(result.value, DatePart(given))
            /\ EndsWith(result.value, " EST") =>
                   StartsWith(result.value, DatePart(PreviousDay(given)))
            /\ EndsWith(result.value, " EDT") \/ EndsWith(result.value, " EST")

\* C5's case: midnight UTC of a new year's day is shown as 31 December
C5_Witness ==
    /\ result.done /\ given.kind = "valid"
    /\ given.month = 1 /\ given.day = 1 /\ given.hour = 0 /\ given.minute = 0
    /\ StartsWith(result.value, "December 31, ")
    /\ result.value = DatePart(PreviousDay(given)) \o "07:00:00 PM EST"

\* C6: a file larger than 10MB is rejected before extract_metadata or
\* update_pdf_metadata is called on it; a file of at most 10MB goes to extraction.
C6_OversizedRejectedFirst ==
    (page.ran /\ uploaded_file.present) =>
        IF uploaded_file.file.size > 10 * 1024 * 1024
        THEN page.rejected /\ ~page.extract_called /\ ~page.update_called /\ ~page.download
        ELSE ~page.rejected /\ page.extract_called

\* C6's case: the 12MB file refused, after a session with another file
C6_Witness ==
    /\ page.ran /\ uploaded_file.present /\ uploaded_file.file.name = "big.pdf"
    /\ session_state.present
    /\ page.rejected /\ ~page.extract_called

\* C7: extract_metadata on an encrypted document returns None, reading no field,
\* and the run renders no field selection, results, edit form or save for it.
C7_EncryptedFailsFast ==
    (page.ran /\ uploaded_file.present /\ uploaded_file.file.doc.encrypted
       /\ uploaded_file.file.size <= MaxUploadBytes) =>
        /\ page.extract_called /\ page.extract_none /\ page.reads = {}
        /\ page.selection = <<>> /\ page.results = <<>>
        /\ page.edit_keys = <<>> /\ page.edit_current = <<>>
        /\ ~page.save_offered /\ ~page.update_called /\ ~page.download

\* C7's case: the encrypted file uploaded while the session holds displayed fields
C7_Witness ==
    /\ page.ran /\ uploaded_file.present /\ uploaded_file.file.doc.encrypted
    /\ session_state.present /\ session_state.displayed_metadata # <<>>
    /\ page.extract_none

\* C8: extract_metadata on a readable, unencrypted document whose information
\* dictionary is absent or empty returns the empty MetadataRecord, not None.
C8_EmptyRecordNotFailure ==
    (/\ extracted.done
     /\ pdf_file.doc.opens = "ok" /\ ~pdf_file.doc.encrypted
     /\ pdf_file.doc.has_info \in {"yes", "no"} /\ pdf_file.doc.info = EmptyInfo) =>
        /\ ~extracted.ret.none
        /\ DOMAIN extracted.ret.record = {}
        /\ extracted.ret # None

\* C8's case: a document with no information dictionary, extracted
C8_Witness ==
    /\ extracted.done /\ pdf_file.doc.opens = "ok" /\ pdf_file.doc.has_info = "no"
    /\ ~extracted.ret.none /\ DOMAIN extracted.ret.record = {}

\* the MetadataRecord of the file in the uploader
CurrentRecord == ExtractedRecord(FileNamed(uploaded_file.file.name).doc.info)

\* C9: the MetadataRecord and displayed-field list in the session are those of the
\* file in the uploader, and the edit form and every EditRequest use only its keys
\* and show only its values.
C9_SessionBelongsToCurrentFile ==
    (page.ran /\ uploaded_file.present /\ session_state.present) =>
        /\ session_state.all_metadata = CurrentRecord
        /\ Elements(session_state.displayed_metadata) \subseteq DOMAIN CurrentRecord
        /\ Elements(page.edit_keys) \subseteq DOMAIN CurrentRecord
        /\ \A i \in 1..Len(page.edit_current) :
             /\ page.edit_current[i].key \in DOMAIN CurrentRecord
             /\ page.edit_current[i].value = CurrentRecord[page.edit_current[i].key]
        /\ \A i \in 1..Len(page.request) : page.request[i].key \in DOMAIN CurrentRecord

\* C10: when update_pdf_metadata fails it returns None with the cause reported, no
\* exception leaves it, and no download is offered; failing or not, the uploaded
\* file's bytes stay as uploaded and the edits are in the new buffer only.
C10_UpdateFailureContained ==
    page.update_called =>
        /\ ~page.raised
        /\ page.update_none =>
             /\ ~page.download
             /\ \E cause \in {"open", "docinfo", "save"} :
                  page.error = "Failed to update metadata: " \o cause
        /\ ~page.update_none =>
             /\ page.download
             /\ \A i \in 1..Len(page.request) :
                  PyStr(page.download_doc.info[page.request[i].key]).val = page.request[i].value
        /\ uploaded_file.file.doc = FileNamed(uploaded_file.file.name).doc

\* C10's case: pdf.save raised in a Save Changes run
C10_Witness ==
    /\ page.update_called /\ page.update_none
    /\ page.error = "Failed to update metadata: save"
    /\ page.request # <<>>
    /\ ~page.download

=============================================================================
